---- MODULE Spec2Model ----
(***************************************************************************)
(* Model of the socket.io audio server (src/unnamed/part_009) and of the   *)
(* speech-detection route it posts words to (src/unnamed/part_006).        *)
(*                                                                         *)
(* One action is one run of the node event loop: a socket.io handler up to *)
(* its first await that really suspends, or the continuation that runs     *)
(* when an awaited I/O call (the OpenAI request, the axios POST) settles,  *)
(* together with every promise continuation chained on it.                 *)
(*                                                                         *)
(* Maps (activeSessions, audioBuffers, sessionAudioAccumulator,            *)
(* globalSpeechSession) are functions whose DOMAIN is the set of keys.     *)
(* Strings the code splits, trims or lower-cases are sequences of          *)
(* one-character strings.                                                  *)
(***************************************************************************)
EXTENDS Integers, Sequences, FiniteSets, TLC

\* ------------------------------------------------------------------ bounds
\* Session life cycle (Spec): audio-chunk events accepted over a run, and
\* stop-session flushes started over a run.
MaxChunks == 2
MaxFlushes == 1
\* Uninterrupted stream (SpecStream): audio-chunk events accepted over a run;
\* two threshold batches fit, the second one filling while the first is in flight.
StreamChunks == 10
\* Two connections on one session id (SpecShared): chunks accepted and flushes
\* started over a run.
SharedChunks == 2
SharedFlushes == 2
\* One stream whose calls all settle (SpecLive): audio-chunk events accepted
\* over a run; a second threshold batch fits after the first has finished.
LiveChunks == 10
\* Temporary files (SpecTemp, SpecPrefix): chunks accepted and flushes started
\* over a run; two calls of tier 2 can be in flight together.
TempChunks == 2
TempFlushes == 2
\* A stream that is stopped (SpecStopStream): chunks accepted and flushes
\* started over a run; a threshold batch and a chunk of the session started
\* again after it fit.
StopStreamChunks == 6
StopStreamFlushes == 1
\* A session stopped and started again while it streams (SpecFlag): chunks
\* accepted and flushes started over a run; a threshold batch before the stop
\* and one after it fit.
FlagChunks == 10
FlagFlushes == 1
\* Users API (SpecUsers): length the collection's user list may grow to.
MaxUsers == 4

\* Connections (socket.id) and the session ids clients send.
Sockets == {"c1", "c2"}
SessionIds == {"s1", "s2"}
\* Two session ids of which one begins with the other.
PrefixSessionIds == {"s1", "s12"}
\* A stop continuation whose connection has gone emits to no live socket.
NoSocket == "gone"

\* --------------------------------------------------------------- constants
MIN_AUDIO_DURATION == 5

\* ----------------------------------------------------------------- strings
IsSpace(ch) == ch = " "

RECURSIVE TrimStart(_)
TrimStart(s) ==
  IF s # <<>> /\ IsSpace(Head(s)) THEN TrimStart(Tail(s)) ELSE s

RECURSIVE TrimEnd(_)
TrimEnd(s) ==
  IF s # <<>> /\ IsSpace(s[Len(s)]) THEN TrimEnd(SubSeq(s, 1, Len(s) - 1)) ELSE s

\* String.prototype.trim
Trim(s) == TrimEnd(TrimStart(s))

\* String.prototype.split(/\s+/): tokens between maximal whitespace runs; a
\* leading or trailing run yields an empty token.
RECURSIVE SplitFrom(_, _, _)
SplitFrom(s, i, cur) ==
  IF i > Len(s) THEN <<cur>>
  ELSE IF IsSpace(s[i])
       THEN IF i > 1 /\ IsSpace(s[i - 1])
            THEN SplitFrom(s, i + 1, cur)
            ELSE <<cur>> \o SplitFrom(s, i + 1, <<>>)
       ELSE SplitFrom(s, i + 1, Append(cur, s[i]))

SplitWs(s) == SplitFrom(s, 1, <<>>)

\* .filter((word) => word.length > 0)
NonEmptyTokens(toks) == SelectSeq(toks, LAMBDA w : Len(w) > 0)

\* Array.prototype.join(' ')
RECURSIVE JoinSp(_)
JoinSp(toks) ==
  IF toks = <<>> THEN <<>>
  ELSE IF Len(toks) = 1 THEN toks[1]
  ELSE toks[1] \o <<" ">> \o JoinSp(Tail(toks))

LowerChar(ch) ==
  CASE ch = "H" -> "h"
    [] ch = "Y" -> "y"
    [] OTHER -> ch

\* String.prototype.toLowerCase
ToLowerCase(s) == [i \in 1..Len(s) |-> LowerChar(s[i])]

\* Array.prototype.flat() on the list of chunk byte arrays
RECURSIVE Flat(_)
Flat(chunks) == IF chunks = <<>> THEN <<>> ELSE Head(chunks) \o Flat(Tail(chunks))

\* String.prototype.startsWith
StartsWith(s, prefix) ==
  Len(prefix) <= Len(s) /\ SubSeq(s, 1, Len(prefix)) = prefix

\* The characters of a session id.
SidChars(sid) ==
  CASE sid = "s1" -> <<"s", "1">>
    [] sid = "s2" -> <<"s", "2">>
    [] sid = "s12" -> <<"s", "1", "2">>

\* A number in decimal.
RECURSIVE Decimal(_)
Decimal(n) ==
  LET d == <<"0", "1", "2", "3", "4", "5", "6", "7", "8", "9">>
  IN  IF n < 10 THEN <<d[n + 1]>> ELSE Decimal(n \div 10) \o <<d[(n % 10) + 1]>>

\* `${sessionId}-${Date.now()}.webm`; the clock reading of a call is its
\* sequence number, later calls reading later times.
TempFileName(sid, now) ==
  SidChars(sid) \o <<"-">> \o Decimal(now) \o <<".", "w", "e", "b", "m">>

\* ------------------------------------------------------------------- maps
EmptyMap == [k \in {} |-> 0]
MapSet(m, k, v) == [x \in (DOMAIN m) \cup {k} |-> IF x = k THEN v ELSE m[x]]
MapDelete(m, k) == [x \in (DOMAIN m) \ {k} |-> m[x]]

\* ------------------------------------------------------------- vocabulary
\* fallbackSpeechDetection's word list
SimulationWords ==
  << <<"h","e","l","l","o">>,
     <<"w","o","r","l","d">>,
     <<"t","e","s","t">>,
     <<"a","u","d","i","o">>,
     <<"s","t","r","e","a","m">>,
     <<"s","p","e","e","c","h">>,
     <<"r","e","c","o","g","n","i","t","i","o","n">>,
     <<"s","y","s","t","e","m">> >>

\* words[Math.floor(Math.random() * words.length)]: the draws considered
OneWord == {SimulationWords[1]}
TwoWords == {SimulationWords[1], SimulationWords[2]}

\* What openai.audio.transcriptions.create can settle with: a rejection, a body
\* without text, or a body with text (blank; one word; padded, two words).
RawTexts == { <<" ">>, <<"H","i">>, <<" ","H","i"," "," ","Y","o"," ">> }
OpenAIOutcomes ==
  {[kind |-> "fail", hasText |-> FALSE, text |-> <<>>],
   [kind |-> "ok", hasText |-> FALSE, text |-> <<>>]}
  \cup {[kind |-> "ok", hasText |-> TRUE, text |-> r] : r \in RawTexts}

\* The outcomes that matter to the temp directory: a rejection, a body without
\* text, a body with a word.
TempOutcomes ==
  {[kind |-> "fail", hasText |-> FALSE, text |-> <<>>],
   [kind |-> "ok", hasText |-> FALSE, text |-> <<>>],
   [kind |-> "ok", hasText |-> TRUE, text |-> <<"H", "i">>]}

\* The OpenAI request answering with a word.
TextOutcome == {[kind |-> "ok", hasText |-> TRUE, text |-> <<"H", "i">>]}

\* ------------------------------------------------------------------ state
VARIABLES
  openai,                   \* TRUE iff OPENAI_API_KEY is set (the client exists)
  activeSessions,           \* socket.id -> [sessionId, chunksReceived]
  audioBuffers,             \* sessionId -> list of chunk payloads
  sessionAudioAccumulator,  \* sessionId -> [chunks, chunkCount, isProcessing]
  tasks,                    \* processAudioAsync calls in flight
  globalSpeechSession,      \* the store: sessionId -> list of words
  nextChunk,                \* payload tag of the next accepted chunk
  nBatches,                 \* processAudioAsync calls started so far
  nFlushes,                 \* those started by stop-session
  last,                     \* the step just taken: event, replies, finished call
  accHist,                  \* per live accumulator: the batches taken from it
  tempDir,                  \* the files in the server's temp directory
  users,                    \* the users array of the /api/users route module
  usersById,                \* the users array of the /api/users/[id] route module
  usersLast                 \* the users API request just answered

vars ==
  <<openai, activeSessions, audioBuffers, sessionAudioAccumulator, tasks,
    globalSpeechSession, nextChunk, nBatches, nFlushes, last, accHist,
    tempDir, users, usersById, usersLast>>

\* The state of the users API, which the socket server does not touch.
apiVars == <<users, usersById, usersLast>>

\* speechToText's return value: a string or null
NullResult == [isNull |-> TRUE, text |-> <<>>]
TextResult(s) == [isNull |-> FALSE, text |-> s]

\* A processAudioAsync call that finished in the step: the tiers it invoked,
\* what speechToText returned or that it rejected, its store writes, and
\* whether the accumulator its .finally() holds was still the session's.
NoDone ==
  [finished |-> FALSE, origin |-> "none", trace |-> <<>>,
   result |-> NullResult, raised |-> FALSE, wrote |-> 0, overtaken |-> FALSE,
   accLive |-> FALSE]
Done(t, result, raised) ==
  [finished |-> TRUE, origin |-> t.origin, trace |-> t.trace,
   result |-> result, raised |-> raised, wrote |-> t.wrote,
   overtaken |-> t.overtaken, accLive |-> t.accLive]

Emit(c, ev, sid, n) == [to |-> c, event |-> ev, sessionId |-> sid, n |-> n]

\* type: the event handled; socket, sessionId: its connection and payload;
\* task: the processAudioAsync call it started or resumed (0: none); emits:
\* the socket events sent; done: the call that finished, if one did.
Step(type, c, sid, id, emits, done) ==
  [type |-> type, socket |-> c, sessionId |-> sid, task |-> id,
   emits |-> emits, done |-> done]

\* let users: User[] = [...], written the same in both route modules
InitialUsers ==
  << [id |-> 1, name |-> "John Doe", email |-> "john@example.com"],
     [id |-> 2, name |-> "Jane Smith", email |-> "jane@example.com"] >>

NoUser == [id |-> 0, name |-> "", email |-> ""]

\* A users API request and its answer: the status, the user in data (NoUser in
\* an error body or a list answer) and the list in data (GET /api/users).
UsersAnswer(op, id, status, user, list) ==
  [op |-> op, id |-> id, status |-> status, user |-> user, list |-> list]

Init ==
  /\ openai \in BOOLEAN
  /\ activeSessions = EmptyMap
  /\ audioBuffers = EmptyMap
  /\ sessionAudioAccumulator = EmptyMap
  /\ tasks = {}
  /\ globalSpeechSession = EmptyMap
  /\ nextChunk = 1
  /\ nBatches = 0
  /\ nFlushes = 0
  /\ last = Step("init", NoSocket, "", 0, <<>>, NoDone)
  /\ accHist = EmptyMap
  /\ tempDir = {}
  /\ users = InitialUsers
  /\ usersById = InitialUsers
  /\ usersLast = UsersAnswer("none", 0, 0, NoUser, <<>>)

\* ------------------------------------------------------------ session store
\* The route's answer: the store afterwards, the HTTP status, and the
\* isNewSession and wordsCount of the body (absent from an error body).
Answer(store, status, isNewSession, wordsCount) ==
  [store |-> store, status |-> status, isNewSession |-> isNewSession,
   wordsCount |-> wordsCount]

\* A POST route that starts the word list afresh on every write.
PostSpeechDetectionReplaces(store, sid, word) ==
  IF sid = "" THEN Answer(store, 400, FALSE, 0)
  ELSE IF word = <<>> THEN Answer(store, 400, FALSE, 0)
  ELSE Answer(MapSet(store, sid, <<word>>),
              IF sid \notin DOMAIN store THEN 201 ELSE 200,
              sid \notin DOMAIN store, 1)

\* POST /api/speech-detection
PostSpeechDetection(store, sid, word) ==
  IF sid = "" THEN Answer(store, 400, FALSE, 0)
  ELSE IF word = <<>> THEN Answer(store, 400, FALSE, 0)
  ELSE IF sid \notin DOMAIN store
       THEN Answer(MapSet(store, sid, <<word>>), 201, TRUE, 1)
       ELSE LET words == Append(store[sid], word)
            IN  Answer(MapSet(store, sid, words), 200, FALSE, Len(words))

\* axios.post behind a retry that sends an answered request a second time.
AxiosPostRetried(store, sid, word, reachable) ==
  IF reachable
  THEN LET r1 == PostSpeechDetection(store, sid, word)
           r2 == PostSpeechDetection(r1.store, sid, word)
       IN  [store |-> r2.store, threw |-> r2.status >= 400,
            wrote |-> r1.status < 400]
  ELSE [store |-> store, threw |-> TRUE, wrote |-> FALSE]

\* axios.post: rejects when the store is unreachable or answers 4xx
AxiosPost(store, sid, word, reachable) ==
  IF reachable
  THEN LET r == PostSpeechDetection(store, sid, word)
       IN  [store |-> r.store, threw |-> r.status >= 400, wrote |-> r.status < 400]
  ELSE [store |-> store, threw |-> TRUE, wrote |-> FALSE]

\* sendWordToAPI that rejects the caller after a POST that was answered.
SendWordToAPIThrowsAfterWrite(store, sid, word, reachable) ==
  LET r == AxiosPost(store, sid, ToLowerCase(word), reachable)
  IN  [store |-> r.store, threw |-> r.wrote, wrote |-> r.wrote]

\* sendWordToAPI without its try/catch: a failed POST rejects the caller.
SendWordToAPINoCatch(store, sid, word, reachable) ==
  AxiosPost(store, sid, ToLowerCase(word), reachable)

\* sendWordToAPI: posts word.toLowerCase(); its try/catch swallows every error
SendWordToAPI(store, sid, word, reachable) ==
  LET r == AxiosPost(store, sid, ToLowerCase(word), reachable)
  IN  [store |-> r.store, threw |-> FALSE, wrote |-> r.wrote]

\* ------------------------------------------------- transcription pipeline
(* A processAudioAsync call in flight.  origin is "threshold" (audio-chunk *)
(* handler) or "stop" (stop-session handler).  stage says which await it   *)
(* is suspended on: "openai" (transcriptions.create) or "post" (the axios  *)
(* POST in sendWordToAPI).  word is the argument of the pending            *)
(* sendWordToAPI call and text what the tier returns after it.  trace      *)
(* lists the tiers invoked for this batch with their outcome; wrote counts *)
(* the batch's store writes.                                               *)
(* The closures keep references: accLive says that the accumulator object  *)
(* captured by .finally() is still the one in sessionAudioAccumulator;     *)
(* sessLive that the session record captured by the stop-session handler   *)
(* is still the one in activeSessions, sessChunks being its chunksReceived *)
(* from the moment it left the map (nothing increments it afterwards).     *)
(* overtaken records that a call dispatched later for the same session id  *)
(* has written to the store while this one was in flight.                  *)
(* tempFile is the name of the temporary audio file openaiSpeechToText     *)
(* wrote for the call (empty before tier 2 ran).                           *)
(* socket is the connection the stop-session handler replies to and whose  *)
(* record it deletes (the threshold closure uses neither): NoSocket once   *)
(* that connection is closed, when the reply reaches no one.               *)
NewTask(id, sid, audio, origin, c) ==
  [id |-> id, sessionId |-> sid, audio |-> audio, origin |-> origin,
   socket |-> IF origin = "stop" THEN c ELSE NoSocket,
   accLive |-> origin = "threshold", sessLive |-> origin = "stop",
   sessChunks |-> 0, stage |-> "start", tier |-> 0, word |-> <<>>,
   text |-> <<>>, trace |-> <<>>, wrote |-> 0, overtaken |-> FALSE,
   tempFile |-> <<>>]

Invoked(tier) == [tier |-> tier, outcome |-> "pending"]
MarkLast(trace, outcome) == [trace EXCEPT ![Len(trace)].outcome = outcome]

\* fallbackSpeechDetection up to its await: draws the word, starts the POST
FallbackSpeechDetection(t, w) ==
  [t EXCEPT !.stage = "post", !.tier = 3, !.word = w, !.text = w,
            !.trace = Append(@, Invoked(3))]

\* openaiSpeechToText up to its await on transcriptions.create
OpenaiSpeechToText(t) ==
  [t EXCEPT !.stage = "openai", !.tier = 2, !.trace = Append(@, Invoked(2)),
            !.tempFile = TempFileName(t.sessionId, t.id)]

\* fs.writeFileSync(tempFile, audioBuffer) of call t, made when it entered
\* openaiSpeechToText: the temp directory after the call's first run
WriteFileSync(dir, t) == IF t.stage = "openai" THEN dir \cup {t.tempFile} ELSE dir

\* A cleanup that looks for files named `${sessionId}_...`, which none is.
CatchCleanupWrongSeparator(dir, sid) ==
  {f \in dir : ~StartsWith(f, SidChars(sid) \o <<"_">>)}

\* A cleanup that removes the files named `${sessionId}-...` only.
CatchCleanupOwnSession(dir, sid) ==
  {f \in dir : ~StartsWith(f, SidChars(sid) \o <<"-">>)}

\* the cleanup in openaiSpeechToText's catch: every file of the temp directory
\* whose name starts with sessionId is unlinked
CatchCleanup(dir, sid) == {f \in dir : ~StartsWith(f, SidChars(sid))}

\* speechToText without the guard on the client: with no credential the call
\* on the missing client throws and is handled as a tier 2 failure.
SpeechToTextUnguarded(t, hasClient, w) ==
  IF hasClient THEN OpenaiSpeechToText(t)
  ELSE FallbackSpeechDetection(
         [t EXCEPT !.trace = Append(@, [tier |-> 2, outcome |-> "failed"])], w)

\* speechToText that goes to the simulation whatever is configured.
SpeechToTextSimulationFirst(t, hasClient, w) == FallbackSpeechDetection(t, w)

\* speechToText up to its first await: tier 1 is commented out, tier 2 runs
\* when the client exists, tier 3 otherwise
SpeechToText(t, hasClient, w) ==
  IF hasClient THEN OpenaiSpeechToText(t) ELSE FallbackSpeechDetection(t, w)

\* speechToText's catch around tier 2: log, then fall to tier 3
Tier2Catch(t, w) ==
  FallbackSpeechDetection([t EXCEPT !.trace = MarkLast(@, "failed")], w)

\* openaiSpeechToText that throws "no speech" instead of returning null.
OpenaiResumeNoSpeechThrows(t, o, dir) ==
  LET transcribedText == IF o.kind = "ok" /\ o.hasText THEN Trim(o.text) ELSE <<>>
      words == JoinSp(NonEmptyTokens(SplitWs(transcribedText)))
  IN  IF Len(transcribedText) > 0 /\ t.tempFile \in dir
      THEN [kind |-> "post",
            task |-> [t EXCEPT !.stage = "post", !.word = words,
                               !.text = transcribedText],
            dir |-> dir \ {t.tempFile}]
      ELSE [kind |-> "throw", task |-> t, dir |-> CatchCleanup(dir, t.sessionId)]

\* openaiSpeechToText after transcriptions.create settled with outcome o, dir
\* being the temp directory: "throw" (a rejection, or fs.unlinkSync(tempFile)
\* not finding the file; the catch cleans up and rethrows), "post" (text found,
\* sendWordToAPI started with the words joined by one space) or "null" (no
\* speech); on the last two the call's file has been unlinked
OpenaiResume(t, o, dir) ==
  IF o.kind = "fail" \/ t.tempFile \notin dir
  THEN [kind |-> "throw", task |-> t, dir |-> CatchCleanup(dir, t.sessionId)]
  ELSE LET transcribedText == IF o.hasText THEN Trim(o.text) ELSE <<>>
           words == JoinSp(NonEmptyTokens(SplitWs(transcribedText)))
       IN  IF Len(transcribedText) > 0
           THEN [kind |-> "post",
                 task |-> [t EXCEPT !.stage = "post", !.word = words,
                                    !.text = transcribedText],
                 dir |-> dir \ {t.tempFile}]
           ELSE [kind |-> "null", task |-> t, dir |-> dir \ {t.tempFile}]

\* ------------------------------------------------------- reference upkeep
\* The session record of socket c leaves activeSessions (replaced or deleted):
\* stop continuations holding it keep its chunksReceived.
DetachSession(ts, c) ==
  {IF t.origin = "stop" /\ t.socket = c /\ t.sessLive
   THEN [t EXCEPT !.sessLive = FALSE,
                  !.sessChunks = activeSessions[c].chunksReceived]
   ELSE t : t \in ts}

\* The accumulator of sid leaves sessionAudioAccumulator.
DetachAccumulator(ts, sid) ==
  {IF t.origin = "threshold" /\ t.sessionId = sid
   THEN [t EXCEPT !.accLive = FALSE] ELSE t : t \in ts}

\* Connection c is closed: what its stop continuations emit reaches no one, and
\* their activeSessions.delete(socket.id) names no later connection.
CloseSocket(ts, c) ==
  {IF t.socket = c
   THEN [t EXCEPT !.socket = NoSocket, !.sessLive = FALSE, !.sessChunks = 0]
   ELSE t : t \in ts}

\* Call t has written to the store (wrote says so): the calls of its session
\* dispatched before it and still in flight have been overtaken.
Overtake(ts, t, wrote) ==
  {IF wrote /\ u.sessionId = t.sessionId /\ u.id < t.id
   THEN [u EXCEPT !.overtaken = TRUE] ELSE u : u \in ts}

\* ----------------------------------------------------------- accumulator
NewAccumulator == [chunks |-> <<>>, chunkCount |-> 0, isProcessing |-> FALSE]
NewHist == <<>>

\* An append that skips chunks arriving while a batch is in flight.
AppendChunkUnlessBusy(acc, audioData) ==
  IF acc.isProcessing THEN acc
  ELSE [acc EXCEPT !.chunks = Append(@, audioData), !.chunkCount = @ + 1]

\* accumulator.chunks.push(audioData); accumulator.chunkCount++
AppendChunk(acc, audioData) ==
  [acc EXCEPT !.chunks = Append(@, audioData), !.chunkCount = @ + 1]

\* A threshold test that does not look at the flag.
ShouldDispatchIgnoringFlag(acc) == acc.chunkCount >= MIN_AUDIO_DURATION

\* the threshold test of the audio-chunk handler
ShouldDispatch(acc) ==
  acc.chunkCount >= MIN_AUDIO_DURATION /\ ~acc.isProcessing

\* A take that empties the chunk list but leaves the count as it is.
TakeBatchKeepsCount(acc) ==
  [acc EXCEPT !.isProcessing = TRUE, !.chunks = <<>>]

\* A take that resets the count but leaves the chunk list as it is.
TakeBatchKeepsChunks(acc) ==
  [acc EXCEPT !.isProcessing = TRUE, !.chunkCount = 0]

\* isProcessing = true; chunks = []; chunkCount = 0
TakeBatch(acc) ==
  [acc EXCEPT !.isProcessing = TRUE, !.chunks = <<>>, !.chunkCount = 0]

\* A session check that only asks whether the connection has a session.
InvalidSessionUnboundOnly(c, sid) == c \notin DOMAIN activeSessions

\* the session check of the audio-chunk handler
InvalidSession(c, sid) ==
  IF c \notin DOMAIN activeSessions THEN TRUE
  ELSE activeSessions[c].sessionId # sid

\* A flush test that waits for a full batch, like the threshold test.
ShouldFlushFullBatch(sid) ==
  /\ sid \in DOMAIN sessionAudioAccumulator
  /\ Len(sessionAudioAccumulator[sid].chunks) >= MIN_AUDIO_DURATION
  /\ ~sessionAudioAccumulator[sid].isProcessing

\* the flush test of the stop-session handler
ShouldFlush(sid) ==
  /\ sid \in DOMAIN sessionAudioAccumulator
  /\ Len(sessionAudioAccumulator[sid].chunks) > 0
  /\ ~sessionAudioAccumulator[sid].isProcessing

\* processAudioAsync(sessionId, audioData) up to its first await
ProcessAudioAsync(id, sid, audio, origin, c, w) ==
  SpeechToText(NewTask(id, sid, audio, origin, c), openai, w)

\* ---------------------------------------------------------------- handlers
\* socket.on('start-session')
StartSession(c, sid) ==
  /\ activeSessions' = MapSet(activeSessions, c,
                              [sessionId |-> sid, chunksReceived |-> 0])
  /\ tasks' = DetachSession(tasks, c)
  /\ audioBuffers' = IF sid \in DOMAIN audioBuffers THEN audioBuffers
                     ELSE MapSet(audioBuffers, sid, <<>>)
  /\ last' = Step("start-session", c, sid, 0,
                  <<Emit(c, "session-started", sid, 0)>>, NoDone)
  /\ UNCHANGED <<openai, apiVars, tempDir, sessionAudioAccumulator, globalSpeechSession,
                 nextChunk, nBatches, nFlushes, accHist>>

\* socket.on('audio-chunk'), session check failed
AudioChunkRejected(c, sid) ==
  /\ InvalidSession(c, sid)
  /\ last' = Step("audio-chunk", c, sid, 0, <<Emit(c, "error", "", 0)>>, NoDone)
  /\ UNCHANGED <<openai, apiVars, tempDir, activeSessions, audioBuffers, sessionAudioAccumulator,
                 tasks, globalSpeechSession, nextChunk, nBatches, nFlushes, accHist>>

\* socket.on('audio-chunk'), session check passed
AudioChunkAccepted(c, sid, w, maxChunks) ==
  /\ ~InvalidSession(c, sid)
  /\ nextChunk <= maxChunks
  /\ LET audioData == <<nextChunk>>
         chunkNumber == activeSessions[c].chunksReceived + 1
         buffer == IF sid \in DOMAIN audioBuffers THEN audioBuffers[sid] ELSE <<>>
         exists == sid \in DOMAIN sessionAudioAccumulator
         accumulator ==
           AppendChunk(IF exists THEN sessionAudioAccumulator[sid]
                       ELSE NewAccumulator, audioData)
         hist == IF exists THEN accHist[sid] ELSE NewHist
         accumulatedAudio == Flat(accumulator.chunks)
         ack == <<Emit(c, "chunk-received", "", chunkNumber)>>
     IN  /\ activeSessions' =
              [activeSessions EXCEPT ![c].chunksReceived = chunkNumber]
         /\ audioBuffers' = MapSet(audioBuffers, sid, Append(buffer, audioData))
         /\ nextChunk' = nextChunk + 1
         /\ IF ShouldDispatch(accumulator)
            THEN /\ sessionAudioAccumulator' =
                      MapSet(sessionAudioAccumulator, sid, TakeBatch(accumulator))
                 /\ LET call == ProcessAudioAsync(nBatches + 1, sid,
                                                  accumulatedAudio, "threshold", c, w)
                    IN  /\ tasks' = tasks \cup {call}
                        /\ tempDir' = WriteFileSync(tempDir, call)
                 /\ nBatches' = nBatches + 1
                 /\ accHist' = MapSet(accHist, sid, hist \o accumulatedAudio)
                 /\ last' = Step("audio-chunk", c, sid, nBatches + 1, ack, NoDone)
            ELSE /\ sessionAudioAccumulator' =
                      MapSet(sessionAudioAccumulator, sid, accumulator)
                 /\ accHist' = MapSet(accHist, sid, hist)
                 /\ last' = Step("audio-chunk", c, sid, 0, ack, NoDone)
                 /\ UNCHANGED <<tasks, nBatches, tempDir>>
  /\ UNCHANGED <<openai, apiVars, globalSpeechSession, nFlushes>>

\* The stop-session handler from "// Clean up" on, run for socket c (NoSocket
\* once the connection is closed), the event's sessionId and the captured
\* session record's chunksReceived; rest are the calls still in flight.
StopCleanup(rest, c, sid, chunksReceived) ==
  /\ sessionAudioAccumulator' = MapDelete(sessionAudioAccumulator, sid)
  /\ accHist' = MapDelete(accHist, sid)
  /\ audioBuffers' = MapDelete(audioBuffers, sid)
  /\ activeSessions' = MapDelete(activeSessions, c)
  /\ tasks' = DetachAccumulator(DetachSession(rest, c), sid)

\* socket.emit('session-stopped', ...): dropped when the connection is closed
StopReply(c, sid, chunksReceived) ==
  IF c = NoSocket THEN <<>>
  ELSE <<Emit(c, "session-stopped", sid, chunksReceived)>>

\* socket.on('stop-session') on a connection without session record
StopSessionIgnored(c, sid) ==
  /\ c \notin DOMAIN activeSessions
  /\ last' = Step("stop-session", c, sid, 0, <<>>, NoDone)
  /\ UNCHANGED <<openai, apiVars, tempDir, activeSessions, audioBuffers, sessionAudioAccumulator,
                 tasks, globalSpeechSession, nextChunk, nBatches, nFlushes, accHist>>

\* socket.on('stop-session'), nothing to flush: the handler runs to its end
StopSessionNow(c, sid) ==
  /\ c \in DOMAIN activeSessions
  /\ ~ShouldFlush(sid)
  /\ StopCleanup(tasks, c, sid, activeSessions[c].chunksReceived)
  /\ last' = Step("stop-session", c, sid, 0,
                  StopReply(c, sid, activeSessions[c].chunksReceived), NoDone)
  /\ UNCHANGED <<openai, apiVars, tempDir, globalSpeechSession, nextChunk, nBatches, nFlushes>>

\* socket.on('stop-session') up to "await processAudioAsync(...)"
StopSessionFlush(c, sid, w, maxFlushes) ==
  /\ c \in DOMAIN activeSessions
  /\ ShouldFlush(sid)
  /\ nFlushes < maxFlushes
  /\ LET remainingAudio == Flat(sessionAudioAccumulator[sid].chunks)
         call == ProcessAudioAsync(nBatches + 1, sid, remainingAudio, "stop", c, w)
     IN  /\ tasks' = tasks \cup {call}
         /\ tempDir' = WriteFileSync(tempDir, call)
  /\ nBatches' = nBatches + 1
  /\ nFlushes' = nFlushes + 1
  /\ last' = Step("stop-session", c, sid, nBatches + 1, <<>>, NoDone)
  /\ UNCHANGED <<openai, apiVars, activeSessions, audioBuffers, sessionAudioAccumulator,
                 globalSpeechSession, nextChunk, accHist>>

\* A disconnect handler that leaves the connection's session record.
DisconnectKeepsRecord(c) ==
  /\ tasks' = CloseSocket(tasks, c)
  /\ last' = Step("disconnect", c,
                  IF c \in DOMAIN activeSessions
                  THEN activeSessions[c].sessionId ELSE "", 0, <<>>, NoDone)
  /\ UNCHANGED <<openai, apiVars, tempDir, activeSessions, audioBuffers, sessionAudioAccumulator,
                 globalSpeechSession, nextChunk, nBatches, nFlushes, accHist>>

\* socket.on('disconnect')
Disconnect(c) ==
  /\ activeSessions' = MapDelete(activeSessions, c)
  /\ tasks' = CloseSocket(tasks, c)
  /\ last' = Step("disconnect", c,
                  IF c \in DOMAIN activeSessions
                  THEN activeSessions[c].sessionId ELSE "", 0, <<>>, NoDone)
  /\ UNCHANGED <<openai, apiVars, tempDir, audioBuffers, sessionAudioAccumulator,
                 globalSpeechSession, nextChunk, nBatches, nFlushes, accHist>>

\* ------------------------------------------------------------- completions
\* A .finally() that looks the accumulator up by session id when it runs.
FinishClearsBySessionId(type, t, tf, rest, result, raised) ==
  IF t.origin = "threshold"
  THEN /\ tasks' = rest
       /\ sessionAudioAccumulator' =
            IF t.sessionId \in DOMAIN sessionAudioAccumulator
            THEN [sessionAudioAccumulator EXCEPT
                    ![t.sessionId].isProcessing = FALSE]
            ELSE sessionAudioAccumulator
       /\ last' = Step(type, t.socket, t.sessionId, t.id, <<>>,
                       Done(tf, result, raised))
       /\ UNCHANGED <<activeSessions, audioBuffers, accHist>>
  ELSE LET chunksReceived ==
             IF t.sessLive THEN activeSessions[t.socket].chunksReceived
             ELSE t.sessChunks
       IN  /\ StopCleanup(rest, t.socket, t.sessionId, chunksReceived)
           /\ last' = Step(type, t.socket, t.sessionId, t.id,
                           StopReply(t.socket, t.sessionId, chunksReceived),
                           Done(tf, result, raised))

\* A .finally() that, the threshold being reached meanwhile, takes the pending
\* chunks and dispatches them at once.
FinishDispatchesPending(type, t, tf, rest, result, raised) ==
  IF t.origin = "threshold"
  THEN LET redo == /\ t.accLive
                   /\ sessionAudioAccumulator[t.sessionId].chunkCount
                        >= MIN_AUDIO_DURATION
           acc == IF t.accLive THEN sessionAudioAccumulator[t.sessionId]
                  ELSE NewAccumulator
       IN  /\ tasks' =
                IF redo
                THEN rest \cup {FallbackSpeechDetection(
                                  NewTask(nBatches + 1, t.sessionId,
                                          Flat(acc.chunks), "threshold", t.socket),
                                  SimulationWords[1])}
                ELSE rest
           /\ sessionAudioAccumulator' =
                IF redo
                THEN [sessionAudioAccumulator EXCEPT
                        ![t.sessionId] = TakeBatch(acc)]
                ELSE IF t.accLive
                THEN [sessionAudioAccumulator EXCEPT
                        ![t.sessionId].isProcessing = FALSE]
                ELSE sessionAudioAccumulator
           /\ last' = Step(type, t.socket, t.sessionId, t.id, <<>>,
                           Done(tf, result, raised))
           /\ UNCHANGED <<activeSessions, audioBuffers, accHist>>
  ELSE LET chunksReceived ==
             IF t.sessLive THEN activeSessions[t.socket].chunksReceived
             ELSE t.sessChunks
       IN  /\ StopCleanup(rest, t.socket, t.sessionId, chunksReceived)
           /\ last' = Step(type, t.socket, t.sessionId, t.id,
                           StopReply(t.socket, t.sessionId, chunksReceived),
                           Done(tf, result, raised))

\* A .finally() that clears the flag only after a call that returned a text.
FinishClearsFlagOnText(type, t, tf, rest, result, raised) ==
  IF t.origin = "threshold"
  THEN /\ tasks' = rest
       /\ sessionAudioAccumulator' =
            IF t.accLive /\ ~result.isNull
            THEN [sessionAudioAccumulator EXCEPT
                    ![t.sessionId].isProcessing = FALSE]
            ELSE sessionAudioAccumulator
       /\ last' = Step(type, t.socket, t.sessionId, t.id, <<>>,
                       Done(tf, result, raised))
       /\ UNCHANGED <<activeSessions, audioBuffers, accHist>>
  ELSE LET chunksReceived ==
             IF t.sessLive THEN activeSessions[t.socket].chunksReceived
             ELSE t.sessChunks
       IN  /\ StopCleanup(rest, t.socket, t.sessionId, chunksReceived)
           /\ last' = Step(type, t.socket, t.sessionId, t.id,
                           StopReply(t.socket, t.sessionId, chunksReceived),
                           Done(tf, result, raised))

\* processAudioAsync call t settles (tf is t as it ended, rest the other calls
\* in flight): the threshold
\* dispatch's .finally() clears the flag of the accumulator it captured; the
\* stop-session handler resumes after its await.
Finish(type, t, tf, rest, result, raised) ==
  IF t.origin = "threshold"
  THEN /\ tasks' = rest
       /\ sessionAudioAccumulator' =
            IF t.accLive
            THEN [sessionAudioAccumulator EXCEPT
                    ![t.sessionId].isProcessing = FALSE]
            ELSE sessionAudioAccumulator
       /\ last' = Step(type, t.socket, t.sessionId, t.id, <<>>,
                       Done(tf, result, raised))
       /\ UNCHANGED <<activeSessions, audioBuffers, accHist>>
  ELSE LET chunksReceived ==
             IF t.sessLive THEN activeSessions[t.socket].chunksReceived
             ELSE t.sessChunks
       IN  /\ StopCleanup(rest, t.socket, t.sessionId, chunksReceived)
           /\ last' = Step(type, t.socket, t.sessionId, t.id,
                           StopReply(t.socket, t.sessionId, chunksReceived),
                           Done(tf, result, raised))

\* a call stays in flight as t2 after this step
Continue(type, t, t2, rest) ==
  /\ tasks' = rest \cup {t2}
  /\ last' = Step(type, t.socket, t.sessionId, t.id, <<>>, NoDone)
  /\ UNCHANGED <<activeSessions, audioBuffers, sessionAudioAccumulator, accHist>>

\* The transcription came back without a word in it.
NoSpeech(o) ==
  o.kind = "ok" /\ (o.hasText => \A i \in 1..Len(o.text) : IsSpace(o.text[i]))

\* openai.audio.transcriptions.create settles for call t with outcome o
OpenAISettles(t, o, w) ==
  /\ t \in tasks
  /\ t.stage = "openai"
  /\ LET r == OpenaiResume(t, o, tempDir)
         type == IF o.kind = "fail" THEN "openai-rejected"
                 ELSE IF t.tempFile \notin tempDir THEN "openai-unlink-failed"
                 ELSE IF NoSpeech(o) THEN "openai-no-speech"
                 ELSE "openai-text"
     IN  /\ tempDir' = r.dir
         /\ CASE r.kind = "throw" ->
                   Continue(type, t, Tier2Catch(t, w), tasks \ {t})
              [] r.kind = "post" -> Continue(type, t, r.task, tasks \ {t})
              [] OTHER ->
                   Finish(type, t, [t EXCEPT !.trace = MarkLast(@, "returned")],
                          tasks \ {t}, NullResult, FALSE)
  /\ UNCHANGED <<openai, apiVars, globalSpeechSession, nextChunk, nBatches, nFlushes>>

\* the axios POST of call t's sendWordToAPI settles; reachable says whether the
\* store answered
PostSettles(t, reachable, w) ==
  /\ t \in tasks
  /\ t.stage = "post"
  /\ LET r == SendWordToAPI(globalSpeechSession, t.sessionId, t.word, reachable)
         t1 == [t EXCEPT !.wrote = @ + (IF r.wrote THEN 1 ELSE 0)]
         type == IF reachable THEN "post-answered" ELSE "post-unreachable"
         rest == Overtake(tasks \ {t}, t, r.wrote)
     IN  /\ globalSpeechSession' = r.store
         /\ tempDir' = IF r.threw /\ t.tier = 2
                       THEN CatchCleanup(tempDir, t.sessionId) ELSE tempDir
         /\ IF ~r.threw
            THEN Finish(type, t, [t1 EXCEPT !.trace = MarkLast(@, "returned")],
                        rest, TextResult(t.text), FALSE)
            ELSE IF t.tier = 2
            THEN \* openaiSpeechToText's catch cleans up and rethrows; caught by
                 \* speechToText
                 Continue(type, t, Tier2Catch(t1, w), rest)
            ELSE \* speechToText rejects; processAudioAsync's catch logs it
                 Finish(type, t, [t1 EXCEPT !.trace = MarkLast(@, "failed")],
                        rest, NullResult, TRUE)
  /\ UNCHANGED <<openai, apiVars, nextChunk, nBatches, nFlushes>>

\* --------------------------------------------------------------- users API
\* The state of the socket server, which the users API does not touch.
serverVars ==
  <<openai, activeSessions, audioBuffers, sessionAudioAccumulator, tasks,
    globalSpeechSession, nextChunk, nBatches, nFlushes, last, accHist, tempDir>>

\* Names, e-mails and ids that requests carry ("" for a missing field).
Names == {"", "Ann"}
Emails == {"", "ann@example.com"}
UserIds == 1..MaxUsers

\* users.findIndex((u) => u.id === id), counted from 1; 0 when none
RECURSIVE FindIndexFrom(_, _, _)
FindIndexFrom(us, id, i) ==
  IF i > Len(us) THEN 0
  ELSE IF us[i].id = id THEN i ELSE FindIndexFrom(us, id, i + 1)

FindIndex(us, id) == FindIndexFrom(us, id, 1)

\* GET /api/users
UsersGET ==
  /\ usersLast' = UsersAnswer("GET /api/users", 0, 200, NoUser, users)
  /\ UNCHANGED <<serverVars, users, usersById>>

\* POST /api/users
UsersPOST(name, email, maxUsers) ==
  /\ Len(users) < maxUsers
  /\ IF name = "" \/ email = ""
     THEN /\ usersLast' = UsersAnswer("POST /api/users", 0, 400, NoUser, <<>>)
          /\ UNCHANGED users
     ELSE LET newUser == [id |-> Len(users) + 1, name |-> name, email |-> email]
          IN  /\ users' = Append(users, newUser)
              /\ usersLast' =
                   UsersAnswer("POST /api/users", newUser.id, 201, newUser, <<>>)
  /\ UNCHANGED <<serverVars, usersById>>

\* What GET /api/users/:id answers on the by-id module's array us
UserById(us, id) ==
  LET i == FindIndex(us, id)
  IN  IF i = 0 THEN UsersAnswer("GET /api/users/:id", id, 404, NoUser, <<>>)
      ELSE UsersAnswer("GET /api/users/:id", id, 200, us[i], <<>>)

\* GET /api/users/:id
UserGET(id) ==
  /\ usersLast' = UserById(usersById, id)
  /\ UNCHANGED <<serverVars, users, usersById>>

\* PUT /api/users/:id
UserPUT(id, name, email) ==
  /\ LET userIndex == FindIndex(usersById, id)
     IN  IF userIndex = 0
         THEN /\ usersLast' = UsersAnswer("PUT /api/users/:id", id, 404, NoUser, <<>>)
              /\ UNCHANGED usersById
         ELSE LET u == usersById[userIndex]
                  updated == [id |-> u.id,
                              name |-> IF name # "" THEN name ELSE u.name,
                              email |-> IF email # "" THEN email ELSE u.email]
              IN  /\ usersById' = [usersById EXCEPT ![userIndex] = updated]
                  /\ usersLast' =
                       UsersAnswer("PUT /api/users/:id", id, 200, updated, <<>>)
  /\ UNCHANGED <<serverVars, users>>

\* DELETE /api/users/:id
UserDELETE(id) ==
  /\ LET userIndex == FindIndex(usersById, id)
     IN  IF userIndex = 0
         THEN /\ usersLast' =
                   UsersAnswer("DELETE /api/users/:id", id, 404, NoUser, <<>>)
              /\ UNCHANGED usersById
         ELSE /\ usersById' = SelectSeq(usersById, LAMBDA u : u.id # id)
              /\ usersLast' = UsersAnswer("DELETE /api/users/:id", id, 200,
                                          usersById[userIndex], <<>>)
  /\ UNCHANGED <<serverVars, users>>

\* ------------------------------------------------------- specifications
\* Events of a stream that is never stopped: connections socks naming sessions
\* sids, the OpenAI call settling as one of outs, the store answering or not as
\* reach says, the simulation drawing from words; at most maxChunks chunks are
\* accepted.
StreamFor(socks, sids, outs, reach, words, maxChunks) ==
  \/ \E c \in socks, sid \in sids : StartSession(c, sid)
  \/ \E c \in socks, sid \in sids : AudioChunkRejected(c, sid)
  \/ \E c \in socks, sid \in sids, w \in words :
       AudioChunkAccepted(c, sid, w, maxChunks)
  \/ \E c \in socks : Disconnect(c)
  \/ \E t \in tasks, o \in outs, w \in words : OpenAISettles(t, o, w)
  \/ \E t \in tasks, r \in reach, w \in words : PostSettles(t, r, w)

\* The same with stop-session, at most maxFlushes flushes being started.
NextFor(socks, sids, outs, reach, words, maxChunks, maxFlushes) ==
  \/ StreamFor(socks, sids, outs, reach, words, maxChunks)
  \/ \E c \in socks, sid \in sids : StopSessionIgnored(c, sid)
  \/ \E c \in socks, sid \in sids : StopSessionNow(c, sid)
  \/ \E c \in socks, sid \in sids, w \in words :
       StopSessionFlush(c, sid, w, maxFlushes)

\* One connection that names either session id.
Next ==
  NextFor({"c1"}, SessionIds, OpenAIOutcomes, BOOLEAN, OneWord,
          MaxChunks, MaxFlushes)

Spec == Init /\ [][Next]_vars

\* Two connections streaming into one session id, never stopping it.
NextStream ==
  StreamFor(Sockets, {"s1"}, OpenAIOutcomes, BOOLEAN, TwoWords, StreamChunks)

SpecStream == Init /\ [][NextStream]_vars

\* Two connections that start, feed and stop one session id.
NextShared ==
  NextFor(Sockets, {"s1"}, OpenAIOutcomes, BOOLEAN, OneWord,
          SharedChunks, SharedFlushes)

SpecShared == Init /\ [][NextShared]_vars

\* One connection streaming into one session id; every awaited I/O call
\* settles (the OpenAI request and the axios POST answer or fail in finite
\* time), which is the weak fairness of Settles.
NextLive ==
  StreamFor({"c1"}, {"s1"}, OpenAIOutcomes, BOOLEAN, OneWord, LiveChunks)

Settles ==
  \/ \E t \in tasks, o \in OpenAIOutcomes, w \in OneWord : OpenAISettles(t, o, w)
  \/ \E t \in tasks, r \in BOOLEAN, w \in OneWord : PostSettles(t, r, w)

SpecLive == Init /\ [][NextLive]_vars /\ WF_vars(Settles)

\* One connection that starts, feeds and stops one session id, also stopping
\* it again while a flush is awaited; the store answers.
NextTemp ==
  NextFor({"c1"}, {"s1"}, TempOutcomes, {TRUE}, OneWord, TempChunks, TempFlushes)

SpecTemp == Init /\ [][NextTemp]_vars

\* The same over two session ids, one a prefix of the other.
NextPrefix ==
  NextFor({"c1"}, PrefixSessionIds, TempOutcomes, {TRUE}, OneWord,
          TempChunks, TempFlushes)

SpecPrefix == Init /\ [][NextPrefix]_vars

\* One connection that streams into one session id up to the threshold and
\* stops it.
NextStopStream ==
  NextFor({"c1"}, {"s1"}, TempOutcomes, BOOLEAN, OneWord,
          StopStreamChunks, StopStreamFlushes)

SpecStopStream == Init /\ [][NextStopStream]_vars

\* One connection that streams into one session id, stops it and starts it
\* again; the OpenAI request and the store answer.
NextFlag ==
  NextFor({"c1"}, {"s1"}, TextOutcome, {TRUE}, OneWord, FlagChunks, FlagFlushes)

SpecFlag == Init /\ [][NextFlag]_vars

\* Requests to the users API.
NextUsers ==
  \/ UsersGET
  \/ \E name \in Names, email \in Emails : UsersPOST(name, email, MaxUsers)
  \/ \E id \in UserIds : UserGET(id)
  \/ \E id \in UserIds, name \in Names, email \in Emails :
       UserPUT(id, name, email)
  \/ \E id \in UserIds : UserDELETE(id)

SpecUsers == Init /\ [][NextUsers]_vars

\* ------------------------------------------------------------------ claims
\* Events sent in the step just taken, by name.
Emitted(step, ev) == \E i \in 1..Len(step.emits) : step.emits[i].event = ev

\* C1: for every session id at most one processAudioAsync call, started by the
\* threshold dispatch or by the stop-session flush, is in flight at any time.
C1_OneCallPerSession ==
  \A t1 \in tasks, t2 \in tasks : t1.sessionId = t2.sessionId => t1 = t2

\* C9: once a connection has disconnected without stop-session, the pending
\* chunks of its session are gone: no accumulator state holding them is left
\* for a later transcription attempt to take.
C9_DisconnectDropsPending ==
  (/\ last.type = "disconnect"
   /\ last.sessionId # ""
   /\ \A t \in tasks : ~(t.origin = "stop" /\ t.sessionId = last.sessionId))
  => IF last.sessionId \in DOMAIN sessionAudioAccumulator
     THEN sessionAudioAccumulator[last.sessionId].chunks = <<>>
     ELSE TRUE

\* C10: an audio-chunk on a connection without session, or naming another
\* session id than the connection's, is answered with an error event only: no
\* chunk-received, the chunk counter unchanged, nothing appended to any
\* accumulator or buffer, no batch dispatched.
C10_InvalidChunkOnlyErrors ==
  [][(/\ last'.type = "audio-chunk"
      /\ IF last'.socket \in DOMAIN activeSessions
         THEN activeSessions[last'.socket].sessionId # last'.sessionId
         ELSE TRUE)
     => /\ Len(last'.emits) = 1
        /\ last'.emits[1].event = "error"
        /\ last'.emits[1].to = last'.socket
        /\ ~Emitted(last', "chunk-received")
        /\ last'.task = 0
        /\ UNCHANGED <<activeSessions, audioBuffers, sessionAudioAccumulator,
                       tasks, nBatches>>]_vars

\* A bound connection sent a chunk under another session id and got the error.
C10_Witness ==
  /\ last.type = "audio-chunk"
  /\ Emitted(last, "error")
  /\ last.socket \in DOMAIN activeSessions
  /\ activeSessions[last.socket].sessionId # last.sessionId
  /\ activeSessions[last.socket].chunksReceived > 0

\* The tiers speechToText has enabled, in priority order (tier 1 is commented
\* out; tier 2 needs the OpenAI client).
EnabledTiers == IF openai THEN <<2, 3>> ELSE <<3>>

\* trace follows the priority order from the top, and every tier before the
\* last one invoked has failed.
InPriorityOrder(trace) ==
  /\ trace # <<>>
  /\ Len(trace) <= Len(EnabledTiers)
  /\ \A i \in 1..Len(trace) : trace[i].tier = EnabledTiers[i]
  /\ \A i \in 1..(Len(trace) - 1) : trace[i].outcome = "failed"

\* C5: for each batch the enabled tiers are invoked one at a time in priority
\* order, a tier only after every higher enabled tier failed on that batch, and
\* none after one returned: when tier 2 fails and the simulation returns a
\* word, that word is the result.
C5_TiersInPriorityOrder ==
  /\ \A t \in tasks :
       /\ InPriorityOrder(t.trace)
       /\ t.trace[Len(t.trace)].outcome = "pending"
       /\ t.tier = t.trace[Len(t.trace)].tier
  /\ last.done.finished =>
       /\ InPriorityOrder(last.done.trace)
       /\ last.done.trace[Len(last.done.trace)].outcome = "returned"
       /\ last.done.trace[Len(last.done.trace)].tier = 3 =>
            /\ ~last.done.result.isNull
            /\ last.done.result.text \in OneWord

\* Tier 2 failed on a batch and the simulation then returned its word.
C5_Witness ==
  /\ last.done.finished
  /\ last.done.trace = <<[tier |-> 2, outcome |-> "failed"],
                         [tier |-> 3, outcome |-> "returned"]>>
  /\ last.done.result = TextResult(SimulationWords[1])

\* C6: when tier 2 reports no speech (no text, or blank text) the batch ends
\* with null in that step: no lower tier is invoked, the store is not written
\* for the batch, and no transcription-error event is emitted.
C6_NoSpeechEndsBatch ==
  [][last'.type = "openai-no-speech"
     => /\ last'.done.finished
        /\ last'.done.result = NullResult
        /\ ~last'.done.raised
        /\ last'.done.trace = <<[tier |-> 2, outcome |-> "returned"]>>
        /\ last'.done.wrote = 0
        /\ \A t \in tasks' : t.id # last'.task
        /\ ~Emitted(last', "transcription-error")
        /\ UNCHANGED globalSpeechSession]_vars

\* A threshold or flush batch ended on tier 2 reporting no speech.
C6_Witness ==
  /\ last.type = "openai-no-speech"
  /\ last.done.finished
  /\ last.done.result.isNull

\* C7: speechToText never rejects: a tier 2 failure is caught and the call goes
\* on in the simulation, and the step in which a sendWordToAPI POST settles,
\* answered or not, ends the call with a text.
C7_SpeechToTextNeverRaises ==
  /\ last.done.finished => ~last.done.raised
  /\ last.type = "openai-rejected" =>
       /\ ~last.done.finished
       /\ \E t \in tasks : t.id = last.task /\ t.tier = 3 /\ t.stage = "post"
  /\ last.type \in {"post-answered", "post-unreachable"} =>
       /\ last.done.finished
       /\ ~last.done.result.isNull
       /\ last.done.trace[Len(last.done.trace)].outcome = "returned"

\* Tier 2 failed, the simulation ran, the store was unreachable, and
\* speechToText still returned the simulated word.
C7_Witness ==
  /\ last.type = "post-unreachable"
  /\ last.done.finished
  /\ Len(last.done.trace) = 2
  /\ last.done.trace[2].tier = 3
  /\ ~last.done.result.isNull
  /\ last.done.wrote = 0

\* C8: stop-session on a connection with a session, for a session id whose
\* accumulator holds fewer chunks than the threshold and has no batch in
\* flight, starts exactly one processAudioAsync call with exactly those chunks
\* in arrival order and neither tears the accumulator down nor replies in that
\* step; the call's teardown and session-stopped reply come in the step in
\* which that call finishes.
C8_StopFlushesOnceBeforeTeardown ==
  [][/\ (/\ last'.type = "stop-session"
         /\ last'.socket \in DOMAIN activeSessions
         /\ last'.sessionId \in DOMAIN sessionAudioAccumulator
         /\ Len(sessionAudioAccumulator[last'.sessionId].chunks) > 0
         /\ Len(sessionAudioAccumulator[last'.sessionId].chunks)
              < MIN_AUDIO_DURATION
         /\ ~sessionAudioAccumulator[last'.sessionId].isProcessing)
        => /\ \E t \in tasks' :
                /\ t \notin tasks
                /\ tasks' = tasks \cup {t}
                /\ t.id = last'.task
                /\ t.sessionId = last'.sessionId
                /\ t.audio = Flat(sessionAudioAccumulator[last'.sessionId].chunks)
           /\ last'.emits = <<>>
           /\ UNCHANGED <<sessionAudioAccumulator, audioBuffers, activeSessions>>
     /\ \A t \in tasks :
          (t.origin = "stop" /\ \A u \in tasks' : u.id # t.id)
          => /\ last'.done.finished
             /\ last'.task = t.id
             /\ t.sessionId \notin DOMAIN sessionAudioAccumulator'
             /\ t.socket # NoSocket =>
                  /\ Len(last'.emits) = 1
                  /\ last'.emits[1].event = "session-stopped"
                  /\ last'.emits[1].to = t.socket
                  /\ last'.emits[1].sessionId = t.sessionId
                  /\ t.socket \notin DOMAIN activeSessions'
    ]_vars

\* A stop-session found two pending chunks and started their transcription.
C8_Witness ==
  /\ last.type = "stop-session"
  /\ last.task # 0
  /\ last.emits = <<>>
  /\ \E t \in tasks :
       /\ t.id = last.task
       /\ t.origin = "stop"
       /\ Len(t.audio) = 2
       /\ t.audio = Flat(sessionAudioAccumulator[t.sessionId].chunks)

\* C2: over accepted chunks and threshold dispatches of a session, the batches
\* taken so far followed by the pending chunks are the chunks accepted, in
\* arrival order, none lost and none twice; right after a take the pending
\* list and count are empty and the batch just taken is what was accepted
\* since the take before.
C2_BatchesPartitionChunks ==
  /\ \A sid \in DOMAIN sessionAudioAccumulator :
       accHist[sid] \o Flat(sessionAudioAccumulator[sid].chunks)
         = Flat(audioBuffers[sid])
  /\ (last.type = "audio-chunk" /\ last.task # 0) =>
       \E t \in tasks :
         LET all == Flat(audioBuffers[last.sessionId])
             n == Len(all) - Len(t.audio)
         IN  /\ t.id = last.task
             /\ t.origin = "threshold"
             /\ sessionAudioAccumulator[last.sessionId].chunks = <<>>
             /\ sessionAudioAccumulator[last.sessionId].chunkCount = 0
             /\ n >= 0
             /\ t.audio = SubSeq(all, n + 1, Len(all))
             /\ accHist[last.sessionId] = all

\* A second batch was just taken from an accumulator: it holds the chunks that
\* arrived after the first take.
C2_Witness ==
  /\ last.type = "audio-chunk"
  /\ last.task # 0
  /\ \E t \in tasks :
       /\ t.id = last.task
       /\ Len(t.audio) >= MIN_AUDIO_DURATION
       /\ Len(t.audio) < Len(accHist[last.sessionId])

C4_ChunkAppendedAndAcknowledged ==
  [][(/\ last'.type = "audio-chunk"
      /\ last'.socket \in DOMAIN activeSessions
      /\ activeSessions[last'.socket].sessionId = last'.sessionId)
     => LET c == last'.socket
            sid == last'.sessionId
            pending == IF sid \in DOMAIN sessionAudioAccumulator
                       THEN sessionAudioAccumulator[sid].chunks ELSE <<>>
            all == Append(pending, <<nextChunk>>)
        IN  /\ last'.emits =
                 <<Emit(c, "chunk-received", "",
                        activeSessions[c].chunksReceived + 1)>>
            /\ activeSessions'[c].chunksReceived
                 = activeSessions[c].chunksReceived + 1
            /\ sid \in DOMAIN sessionAudioAccumulator'
            /\ IF tasks' = tasks
               THEN sessionAudioAccumulator'[sid].chunks = all
               ELSE \E t \in tasks' \ tasks : t.audio = Flat(all)
            /\ tasks \subseteq tasks'
            /\ ~last'.done.finished]_vars

\* A chunk arrived while a batch of its session was in flight: it was
\* acknowledged and is pending.
C4_Witness ==
  /\ last.type = "audio-chunk"
  /\ Emitted(last, "chunk-received")
  /\ last.task = 0
  /\ sessionAudioAccumulator[last.sessionId].isProcessing
  /\ sessionAudioAccumulator[last.sessionId].chunks # <<>>
  /\ \E t \in tasks : t.sessionId = last.sessionId /\ t.origin = "threshold"

\* C11: for one session the store is written in dispatch order: a call that
\* writes has not been overtaken, that is, no call dispatched after it for the
\* same session id has written before it.
C11_StoreWritesInDispatchOrder ==
  (last.done.finished /\ last.done.wrote > 0) => ~last.done.overtaken

\* C12: publishing a recognised text writes one store entry per non-empty
\* whitespace-delimited token of the text, in text order, each lower-cased: a
\* text of n tokens adds exactly n entries to the session's word list.
C12_OneWritePerToken ==
  [][\A t \in tasks :
       (/\ last'.type = "post-answered"
        /\ last'.task = t.id
        /\ t.tier = 2)
       => LET tokens == NonEmptyTokens(SplitWs(t.text))
              before == IF t.sessionId \in DOMAIN globalSpeechSession
                        THEN globalSpeechSession[t.sessionId] ELSE <<>>
          IN  /\ t.sessionId \in DOMAIN globalSpeechSession'
              /\ globalSpeechSession'[t.sessionId] =
                   before \o [i \in 1..Len(tokens) |-> ToLowerCase(tokens[i])]
    ]_vars

\* C13: the store writes of a batch come from one tier: while a lower tier is
\* tried after a failure the batch has written nothing, and a finished batch
\* has at most the single write of the tier that returned.
C13_WritesFromOneTier ==
  /\ \A t \in tasks :
       (\E i \in 1..Len(t.trace) : t.trace[i].outcome = "failed") => t.wrote = 0
  /\ last.done.finished =>
       /\ last.done.wrote <= 1
       /\ last.done.wrote = 1 =>
            last.done.trace[Len(last.done.trace)].outcome = "returned"

\* Tier 2 failed on a batch without writing; the simulation then wrote the
\* batch's only word.
C13_Witness ==
  /\ last.type = "post-answered"
  /\ last.done.finished
  /\ Len(last.done.trace) = 2
  /\ last.done.trace[1].outcome = "failed"
  /\ last.done.wrote = 1
  /\ last.sessionId \in DOMAIN globalSpeechSession

\* The simulation's vocabulary as a set.
Vocabulary == {SimulationWords[i] : i \in 1..Len(SimulationWords)}

C15_LocalTierFirst ==
  /\ \A t \in tasks :
       /\ t.trace[1].tier = 1
       /\ \A i \in 1..Len(t.trace) :
            t.trace[i].tier = 2 =>
              (i > 1 /\ t.trace[i - 1] = [tier |-> 1, outcome |-> "failed"])
  /\ last.done.finished => last.done.trace[1].tier = 1

\* C16: without cloud credential the cloud adapter is invoked for no batch and
\* its absence is no tier failure: every batch goes straight to the
\* simulation, which handles it.
C16_NoCredentialSkipsCloud ==
  ~openai =>
    /\ \A t \in tasks :
         /\ t.trace = <<[tier |-> 3, outcome |-> "pending"]>>
         /\ t.stage = "post"
    /\ last.done.finished =>
         /\ last.done.trace = <<[tier |-> 3, outcome |-> "returned"]>>
         /\ ~last.done.result.isNull
    /\ last.type \notin {"openai-rejected", "openai-no-speech", "openai-text"}

\* Without credential a batch was handled by the simulation alone.
C16_Witness ==
  /\ ~openai
  /\ last.done.finished
  /\ last.done.origin = "stop"
  /\ last.done.trace = <<[tier |-> 3, outcome |-> "returned"]>>
  /\ last.done.result = TextResult(SimulationWords[1])

\* The session id connection c is bound to in registry reg, "" when Idle.
Binding(reg, c) == IF c \in DOMAIN reg THEN reg[c].sessionId ELSE ""

\* C17: a connection is Idle (no registry record) or Active (bound to one
\* session id).  start-session makes it Active on the given id, and when it was
\* Active already neither starts a flush nor touches any accumulator or
\* buffer; disconnect, a stop-session that has nothing to await, and the end of
\* a stop-session's flush leave it Idle; nothing else changes the binding.
C17_IdleActiveStateMachine ==
  [][/\ \A c \in DOMAIN activeSessions' :
          c \in Sockets /\ activeSessions'[c].sessionId \in SessionIds
     /\ last'.type = "start-session" =>
          /\ Binding(activeSessions', last'.socket) = last'.sessionId
          /\ UNCHANGED <<sessionAudioAccumulator, nBatches>>
          /\ {t.id : t \in tasks'} = {t.id : t \in tasks}
          /\ \A sid \in DOMAIN audioBuffers :
               sid \in DOMAIN audioBuffers' /\ audioBuffers'[sid] = audioBuffers[sid]
     /\ last'.type = "disconnect" => Binding(activeSessions', last'.socket) = ""
     /\ (last'.type = "stop-session" /\ last'.task = 0) =>
          Binding(activeSessions', last'.socket) = ""
     /\ (last'.done.finished /\ last'.done.origin = "stop"
           /\ last'.socket # NoSocket) =>
          Binding(activeSessions', last'.socket) = ""
     /\ \A c \in Sockets :
          Binding(activeSessions', c) # Binding(activeSessions, c) =>
            /\ last'.socket = c
            /\ \/ last'.type \in {"start-session", "stop-session", "disconnect"}
               \/ last'.done.finished /\ last'.done.origin = "stop"
    ]_vars

\* start-session bound the connection to one session id while the accumulator
\* of the other one, fed by this connection before, still holds its chunk.
C17_Witness ==
  /\ last.type = "start-session"
  /\ Binding(activeSessions, last.socket) = last.sessionId
  /\ \E sid \in DOMAIN sessionAudioAccumulator :
       /\ sid # last.sessionId
       /\ sessionAudioAccumulator[sid].chunks # <<>>
  /\ last.sessionId \notin DOMAIN sessionAudioAccumulator

\* C18: on every connection start-session sets the chunk counter to zero, each
\* chunk-received carries the counter after adding one for the chunk, and the
\* chunksReceived of a session-stopped sent to an Active connection is that
\* connection's counter, the number of chunks accepted on it since its most
\* recent start-session, at the moment the reply is sent.
C18_ChunkCounterReported ==
  [][/\ last'.type = "start-session" =>
          activeSessions'[last'.socket].chunksReceived = 0
     /\ Emitted(last', "chunk-received") =>
          /\ last'.emits[1].n = activeSessions[last'.socket].chunksReceived + 1
          /\ last'.emits[1].n = activeSessions'[last'.socket].chunksReceived
     /\ (Emitted(last', "session-stopped")
           /\ last'.socket \in DOMAIN activeSessions) =>
          last'.emits[1].n = activeSessions[last'.socket].chunksReceived
    ]_vars

\* C19: a store write with non-empty sessionId and word, made on any store the
\* server's writes have produced, creates the session with exactly that word
\* when it is absent (isNewSession true, status 201) and otherwise appends the
\* word at the end of its list (isNewSession false, status 200); wordsCount is
\* the previous count plus one, earlier words keep their places, and no other
\* session changes.
C19_StoreWriteCreatesOrAppends ==
  \A sid \in SessionIds, word \in TwoWords :
    LET r == PostSpeechDetection(globalSpeechSession, sid, word)
        absent == sid \notin DOMAIN globalSpeechSession
        before == IF absent THEN <<>> ELSE globalSpeechSession[sid]
    IN  /\ r.isNewSession = absent
        /\ r.status = IF absent THEN 201 ELSE 200
        /\ DOMAIN r.store = DOMAIN globalSpeechSession \cup {sid}
        /\ r.store[sid] = before \o <<word>>
        /\ r.wordsCount = Len(before) + 1
        /\ \A other \in DOMAIN globalSpeechSession \ {sid} :
             r.store[other] = globalSpeechSession[other]

\* The server's second write for a session was just appended to the first.
C19_Witness ==
  /\ last.type = "post-answered"
  /\ last.done.wrote = 1
  /\ last.sessionId \in DOMAIN globalSpeechSession
  /\ Len(globalSpeechSession[last.sessionId]) = 2
  /\ SessionIds \ DOMAIN globalSpeechSession # {}

\* C20: the collection endpoints and the by-id endpoints act on one set of
\* users: once DELETE /api/users/:id has answered 200 the user is not in what
\* GET /api/users returns, and a user POST /api/users has just created is
\* found under /api/users/:id.
C20_OneSetOfUsers ==
  /\ (usersLast.op = "DELETE /api/users/:id" /\ usersLast.status = 200) =>
       \A i \in 1..Len(users) : users[i].id # usersLast.id
  /\ (usersLast.op = "POST /api/users" /\ usersLast.status = 201) =>
       /\ UserById(usersById, usersLast.user.id).status = 200
       /\ UserById(usersById, usersLast.user.id).user = usersLast.user

\* C21: the flag a threshold dispatch set is cleared in the step in which
\* that batch's call finishes, with a text, with no speech or after failures,
\* on the accumulator the dispatch took the batch from; when every awaited
\* call settles, a set flag is eventually false again.
C21_FlagClearedWhenBatchFinishes ==
  /\ [][\A t \in tasks :
          (t.origin = "threshold" /\ \A u \in tasks' : u.id # t.id)
          => /\ last'.done.finished
             /\ last'.task = t.id
             /\ t.accLive =>
                  /\ t.sessionId \in DOMAIN sessionAudioAccumulator'
                  /\ ~sessionAudioAccumulator'[t.sessionId].isProcessing]_vars
  /\ \A sid \in SessionIds :
       (/\ sid \in DOMAIN sessionAudioAccumulator
        /\ sessionAudioAccumulator[sid].isProcessing)
       ~> (/\ sid \in DOMAIN sessionAudioAccumulator
           /\ ~sessionAudioAccumulator[sid].isProcessing)

\* The first batch ended on no speech, its flag was cleared, and a later chunk
\* has just dispatched the second batch.
C21_Witness ==
  /\ last.type = "audio-chunk"
  /\ last.task = 2
  /\ nBatches = 2
  /\ Cardinality(tasks) = 1
  /\ globalSpeechSession = EmptyMap
  /\ sessionAudioAccumulator[last.sessionId].isProcessing

\* C22: a store write that fails is caught in sendWordToAPI: the call that
\* made it ends in that step with the tier's text, the tier counts as returned
\* (no lower tier is invoked after it), nothing is raised to processAudioAsync,
\* and the batch has written nothing.
C22_StoreFailureCaught ==
  last.type = "post-unreachable" =>
    /\ last.done.finished
    /\ ~last.done.raised
    /\ ~last.done.result.isNull
    /\ last.done.wrote = 0
    /\ last.done.trace[Len(last.done.trace)].outcome = "returned"
    /\ \A i \in 1..(Len(last.done.trace) - 1) :
         last.done.trace[i].tier < last.done.trace[Len(last.done.trace)].tier
    /\ \A t \in tasks : t.id # last.task

\* The cloud tier recognised a text, the store did not answer, and the call
\* still returned that text from tier 2.
C22_Witness ==
  /\ last.type = "post-unreachable"
  /\ last.done.finished
  /\ last.done.trace = <<[tier |-> 2, outcome |-> "returned"]>>
  /\ last.done.result = TextResult(<<"H", "i">>)
  /\ last.sessionId \notin DOMAIN globalSpeechSession

\* C23: every file of the temp directory is the file of a tier 2 call that is
\* still awaiting its transcription: a call that has got its answer, with a
\* text, without speech or as a failure, has no file left in that step, nor
\* has any call that has returned or thrown.
C23_TempFilesDeleted ==
  /\ \A f \in tempDir :
       \E t \in tasks : t.stage = "openai" /\ t.tier = 2 /\ t.tempFile = f
  /\ last.type \in {"openai-rejected", "openai-unlink-failed",
                    "openai-no-speech", "openai-text"}
       => TempFileName(last.sessionId, last.task) \notin tempDir

\* The OpenAI request of a call was rejected: the call went on in the
\* simulation and the file it had written is gone.
C23_Witness ==
  /\ last.type = "openai-rejected"
  /\ \E t \in tasks :
       /\ t.id = last.task
       /\ t.tier = 3
       /\ t.tempFile = TempFileName(last.sessionId, last.task)
       /\ t.tempFile \notin tempDir
  /\ \E t \in tasks : t.tier = 2 /\ t.stage = "openai"

\* C30: a failing adapter call removes only the file it wrote itself: the file
\* of every other tier 2 call that awaits its transcription, of the same
\* session or of a session whose id begins with the failing call's, stays in
\* the temp directory.
C30_CleanupRemovesOwnFileOnly ==
  \A t \in tasks : (t.tier = 2 /\ t.stage = "openai") => t.tempFile \in tempDir

\* C24: the chunks a stop-session flush has handed to its call are in no
\* threshold batch: no call dispatched by the threshold test for the session
\* holds a chunk that a call of the flush holds.
C24_FlushedChunksNotRedispatched ==
  \A t1 \in tasks, t2 \in tasks :
    (/\ t1.origin = "stop"
     /\ t2.origin = "threshold"
     /\ t1.sessionId = t2.sessionId)
    => \A i \in 1..Len(t1.audio), j \in 1..Len(t2.audio) :
         t1.audio[i] # t2.audio[j]

\* C25: a stop-session naming another session id than the one its connection
\* is bound to leaves the named session alone: no call is started for it and
\* its accumulator stays as it is.
C25_StopOnlyBoundSession ==
  [][(/\ last'.type = "stop-session"
      /\ last'.socket \in DOMAIN activeSessions
      /\ activeSessions[last'.socket].sessionId # last'.sessionId)
     => /\ last'.task = 0
        /\ UNCHANGED <<sessionAudioAccumulator, tasks, nBatches>>
    ]_vars

\* C26: a stop-session that arrives while a batch dispatched by the threshold
\* test is in flight for its session id starts no flush: it discards the
\* pending chunks with the accumulator in that step and leaves the batch in
\* flight as it is.
C26_StopDuringBatchSkipsFlush ==
  [][(/\ last'.type = "stop-session"
      /\ last'.socket \in DOMAIN activeSessions
      /\ \E t \in tasks :
           t.origin = "threshold" /\ t.sessionId = last'.sessionId)
     => /\ last'.task = 0
        /\ nBatches' = nBatches
        /\ last'.sessionId \notin DOMAIN sessionAudioAccumulator'
        /\ {t.id : t \in tasks'} = {t.id : t \in tasks}
    ]_vars

\* C27: the completion of a batch dispatches nothing: in the step that
\* finishes a threshold batch no call is started and the pending chunks stay
\* pending with the flag false, also when their count has reached the
\* threshold meanwhile; a call is only ever started by an audio-chunk or a
\* stop-session step for its session.
C27_CompletionNeverDispatches ==
  [][/\ (last'.done.finished /\ last'.done.origin = "threshold") =>
          /\ {t.id : t \in tasks'} \subseteq {t.id : t \in tasks}
          /\ nBatches' = nBatches
          /\ \A sid \in DOMAIN sessionAudioAccumulator :
               /\ sid \in DOMAIN sessionAudioAccumulator'
               /\ sessionAudioAccumulator'[sid].chunks
                    = sessionAudioAccumulator[sid].chunks
               /\ sessionAudioAccumulator'[sid].chunkCount
                    = sessionAudioAccumulator[sid].chunkCount
               /\ sid = last'.sessionId =>
                    ~sessionAudioAccumulator'[sid].isProcessing
     /\ \A t \in tasks' :
          (\A u \in tasks : u.id # t.id) =>
            /\ last'.type \in {"audio-chunk", "stop-session"}
            /\ last'.sessionId = t.sessionId
            /\ last'.task = t.id
    ]_vars

\* A batch has finished while five more chunks were pending: they are still
\* pending, the flag is false and no call is in flight.
C27_Witness ==
  /\ last.done.finished
  /\ last.done.origin = "threshold"
  /\ tasks = {}
  /\ sessionAudioAccumulator[last.sessionId].chunkCount >= MIN_AUDIO_DURATION
  /\ ~sessionAudioAccumulator[last.sessionId].isProcessing

\* C28: the flag of a session's accumulator is true exactly while a batch the
\* threshold test took from that very accumulator is in flight; batches taken
\* from an accumulator stop-session has deleted since do not count, and their
\* completion leaves the flag of the accumulator created later for the same
\* session id as it is.
C28_FlagIffBatchOfThisAccumulator ==
  \A sid \in DOMAIN sessionAudioAccumulator :
    sessionAudioAccumulator[sid].isProcessing
    <=> \E t \in tasks :
          t.origin = "threshold" /\ t.sessionId = sid /\ t.accLive

\* A batch taken from a deleted accumulator has just finished while a batch of
\* the session's new accumulator is in flight: the new flag is still true.
C28_Witness ==
  /\ last.done.finished
  /\ last.done.origin = "threshold"
  /\ ~last.done.accLive
  /\ last.sessionId \in DOMAIN sessionAudioAccumulator
  /\ sessionAudioAccumulator[last.sessionId].isProcessing
  /\ \E t \in tasks :
       t.origin = "threshold" /\ t.sessionId = last.sessionId /\ t.accLive

\* C29: the chunkCount of every accumulator is the length of its chunks list,
\* so the threshold test (on chunkCount) and the flush test (on chunks.length)
\* agree on whether chunks are pending.
C29_CountIsLengthOfChunks ==
  \A sid \in DOMAIN sessionAudioAccumulator :
    LET acc == sessionAudioAccumulator[sid]
    IN  /\ acc.chunkCount = Len(acc.chunks)
        /\ (acc.chunkCount > 0) <=> (Len(acc.chunks) > 0)
        /\ (acc.chunkCount >= MIN_AUDIO_DURATION)
             <=> (Len(acc.chunks) >= MIN_AUDIO_DURATION)

\* After a batch was taken two more chunks arrived: list and count are at two.
C29_Witness ==
  /\ nBatches = 1
  /\ last.type = "audio-chunk"
  /\ last.task = 0
  /\ sessionAudioAccumulator[last.sessionId].chunkCount = 2
  /\ Len(sessionAudioAccumulator[last.sessionId].chunks) = 2
  /\ sessionAudioAccumulator[last.sessionId].isProcessing

====
